---- MODULE Spec2Model ----
(***************************************************************************)
(* Shift-AI: the greedy shift scheduler of src/app.py (optimize_shifts)    *)
(* and the eligibility checks it calls.  Hours are kept in tenths of an    *)
(* hour (12.5 h = 125, 6 h = 60) so that the sums the code forms with      *)
(* floats (all multiples of 0.5, exactly representable) stay integers.     *)
(***************************************************************************)
EXTENDS Integers, Sequences, FiniteSets, TLC

\* ------------------------------------------------------------------ bounds
\* Number of detected date columns (the horizon); day index d is 0-based.
NumDays == 3
\* Largest number of detected staff rows over the four groups of a roster.
MaxRows == 3

\* --------------------------------------------------------- input domains
\* Staff names that may appear in column B.
Names == {"A", "B"}
\* Hour caps that may appear in the limit table (tenths of an hour).
LimitValues == {250, 435}
\* Non-empty constraint strings that may appear in column D of a roster:
\* "月水のみ" and "2日".
ConstraintPool == {<<"getsu", "sui", "no", "mi">>, <<"2", "nichi">>}

\* ------------------------------------------------------ program constants
\* Row ranges of the four groups, as sequences in iteration order.
CARE_ROWS_GH1 == <<4, 5, 6, 7, 8>>
NIGHT_ROWS_GH1 == <<9, 10, 11, 12, 13, 14, 15>>
CARE_ROWS_GH2 == <<19, 20, 21, 22, 23>>
NIGHT_ROWS_GH2 == <<24, 25, 26, 27, 28, 29>>

\* Value written for a night duty (12.5 h) and for a day-care duty (6 h).
NIGHT_HOURS == 125
CARE_HOURS == 60
\* The empty string written by the clearing loop, and pandas' NaN.
BLANK == -1
NAN == -2
\* Default of limits.get(name, 1000) in the sort key, in tenths.
SORT_DEFAULT_LIMIT == 10000

\* Characters of the constraint strings (column D), romanised.
getsu == "getsu"
ka == "ka"
sui == "sui"
moku == "moku"
kin == "kin"
do == "do"
nichi == "nichi"
you == "you"
mai == "mai"
shuu == "shuu"
no == "no"
mi == "mi"
kai == "kai"
Digits == {"0", "1", "2", "3", "4", "5", "6", "7", "8", "9"}
JoukenNashi == <<"jou", "ken", "na", "shi">>
NanString == <<"n", "a", "n">>
weekdays == <<getsu, ka, sui, moku, kin, do, nichi>>

VARIABLES
    df_input,               \* the uploaded grid, staff cells only: [<<row, d>> -> value]
    df,                     \* the working copy optimize_shifts mutates
    night_staff_gh1, care_staff_gh1, night_staff_gh2, care_staff_gh2,
                            \* the four groups: sequences of <<name, row>>
    limits,                 \* name -> cap, for the names of the limit table
    night_constraints_gh1, care_constraints_gh1,
    night_constraints_gh2, care_constraints_gh2,
                            \* per group: name -> constraint string
    assignment_history,     \* name -> sequence of day indices
    available_staff,        \* the candidate list of the last slot, after its sort
    selected_name, selected_row,
    current_day_idx,        \* index of the day being processed
    slot,                   \* next block of the day's loop body: 1..4
    pc,                     \* "clear", "assign", "totals", "done"
    totals, limits_series,  \* the two returned series
    df_rerun, assignment_history_rerun,
                            \* grid and ledger of a second run on the same input
    avail_constraint, avail_day,
                            \* arguments of a call of can_work_on_day
    avail_checked, avail_result
                            \* whether that call has returned, and its result

vars == <<df_input, df, night_staff_gh1, care_staff_gh1, night_staff_gh2,
          care_staff_gh2, limits, night_constraints_gh1, care_constraints_gh1,
          night_constraints_gh2, care_constraints_gh2, assignment_history,
          available_staff, selected_name, selected_row, current_day_idx, slot,
          pc, totals, limits_series, df_rerun, assignment_history_rerun,
          avail_constraint, avail_day, avail_checked, avail_result>>

avail_vars == <<avail_constraint, avail_day, avail_checked, avail_result>>

roster_vars == <<df_input, night_staff_gh1, care_staff_gh1, night_staff_gh2,
                 care_staff_gh2, limits, night_constraints_gh1,
                 care_constraints_gh1, night_constraints_gh2,
                 care_constraints_gh2>>

Days == 0 .. (NumDays - 1)

\* Header of the d-th date column: the horizon is days 1..NumDays of a month.
DayNum(d) == d + 1

\* ------------------------------------------------------------- helpers
SeqSet(s) == {s[i] : i \in 1 .. Len(s)}
NamesIn(staff) == {staff[i][1] : i \in 1 .. Len(staff)}
RowsIn(staff) == {staff[i][2] : i \in 1 .. Len(staff)}

\* Groups in the order of the blocks of the day loop.
StaffOf_SiteTwoFirst(g) ==
    CASE g = 1 -> night_staff_gh2
      [] g = 2 -> care_staff_gh2
      [] g = 3 -> night_staff_gh1
      [] g = 4 -> care_staff_gh1

StaffOf(g) ==
    CASE g = 1 -> night_staff_gh1
      [] g = 2 -> care_staff_gh1
      [] g = 3 -> night_staff_gh2
      [] g = 4 -> care_staff_gh2

ConstraintsOf(g) ==
    CASE g = 1 -> night_constraints_gh1
      [] g = 2 -> care_constraints_gh1
      [] g = 3 -> night_constraints_gh2
      [] g = 4 -> care_constraints_gh2

IsNightGroup(g) == g \in {1, 3}
ShiftHours(g) == IF IsNightGroup(g) THEN NIGHT_HOURS ELSE CARE_HOURS

all_staff == night_staff_gh1 \o care_staff_gh1 \o night_staff_gh2 \o care_staff_gh2
all_staff_names == NamesIn(all_staff)

\* dict.get(key, default)
DictGet(dict, key, default) == IF key \in DOMAIN dict THEN dict[key] ELSE default

\* ------------------------------------------------------ can_work_on_day
\* `needle in haystack` on strings.
Contains(haystack, needle) ==
    \E i \in 0 .. (Len(haystack) - Len(needle)) :
        \A k \in 1 .. Len(needle) : haystack[i + k] = needle[k]

\* str.lower(): only Latin capitals change.
LowerChar(ch) == IF ch = "N" THEN "n" ELSE IF ch = "A" THEN "a" ELSE ch
Lower(str) == [i \in 1 .. Len(str) |-> LowerChar(str[i])]

\* float(constraint) succeeds: the decimal numerals (digits with at most one
\* point, at least one digit), the shape the code's comment names ("0.5").
IsFloat(str) ==
    /\ \A i \in 1 .. Len(str) : str[i] \in Digits \cup {"."}
    /\ \E i \in 1 .. Len(str) : str[i] \in Digits
    /\ Cardinality({i \in 1 .. Len(str) : str[i] = "."}) <= 1

\* str(day) for a day-number 1..31.
DigitOf(n) == CASE n = 0 -> "0" [] n = 1 -> "1" [] n = 2 -> "2" [] n = 3 -> "3"
                [] n = 4 -> "4" [] n = 5 -> "5" [] n = 6 -> "6" [] n = 7 -> "7"
                [] n = 8 -> "8" [] n = 9 -> "9"
StrOfDay(day) ==
    IF day < 10 THEN <<DigitOf(day)>> ELSE <<DigitOf(day \div 10), DigitOf(day % 10)>>

\* re.findall(r'(\d+)日', constraint): the maximal digit runs that are
\* directly followed by the character 日.
FindDays(str) ==
    {SubSeq(str, i, j - 1) : <<i, j>> \in
        {<<i, j>> \in (1 .. Len(str)) \X (1 .. Len(str)) :
            /\ i < j
            /\ str[j] = nichi
            /\ \A k \in i .. (j - 1) : str[k] \in Digits
            /\ (i = 1 \/ str[i - 1] \notin Digits)}}

\* Mutant: "月2回" read as the first two weeks of the month.
can_work_on_day_FirstTwoWeeks(constraint, day, day_of_week) ==
    IF constraint = <<>> \/ constraint = JoukenNashi \/ constraint = NanString
    THEN TRUE
    ELSE LET c == Lower(constraint) IN
        IF IsFloat(c) THEN TRUE
        ELSE IF Contains(c, <<mai, shuu, nichi, you>>) THEN day_of_week = nichi
        ELSE IF Contains(c, <<ka, you>>) /\ Contains(c, <<sui, you>>)
            THEN day_of_week \in {ka, sui}
        ELSE IF Contains(c, <<getsu, sui, no, mi>>) THEN day_of_week \in {getsu, sui}
        ELSE IF Contains(c, <<moku, you, no, mi>>) THEN day_of_week = moku
        ELSE IF Contains(c, <<getsu, "1", kai>>) THEN day <= 7
        ELSE IF Contains(c, <<getsu, "2", kai>>) THEN day <= 14
        ELSE TRUE

can_work_on_day(constraint, day, day_of_week) ==
    IF constraint = <<>> \/ constraint = JoukenNashi \/ constraint = NanString
    THEN TRUE
    ELSE LET c == Lower(constraint) IN
        IF IsFloat(c) THEN TRUE
        ELSE IF Contains(c, <<mai, shuu, nichi, you>>) THEN day_of_week = nichi
        ELSE IF Contains(c, <<ka, you>>) /\ Contains(c, <<sui, you>>)
            THEN day_of_week \in {ka, sui}
        ELSE IF Contains(c, <<getsu, sui, no, mi>>) THEN day_of_week \in {getsu, sui}
        ELSE IF Contains(c, <<moku, you, no, mi>>) THEN day_of_week = moku
        ELSE IF Contains(c, <<getsu, "1", kai>>) THEN day <= 7
        ELSE IF Contains(c, <<getsu, "2", kai>>)
            THEN day <= 7 \/ (15 <= day /\ day <= 21)
        ELSE IF /\ Contains(c, <<nichi>>)
                /\ ~ \E i \in 1 .. Len(weekdays) : Contains(c, <<weekdays[i]>>)
            THEN ~ (FindDays(c) # {} /\ StrOfDay(day) \notin FindDays(c))
        ELSE TRUE

\* ----------------------------------------------------- can_assign_shift
\* Mutant: the consecutive-day check (lines 667-670) left out.
can_assign_shift_NoBan(d_f, staff_name, staff_row, day_idx, constraints, history) ==
    /\ d_f[<<staff_row, day_idx>>] # 0
    /\ can_work_on_day(DictGet(constraints, staff_name, <<>>), DayNum(day_idx),
                       weekdays[((DayNum(day_idx) - 1) % 7) + 1])

can_assign_shift(d_f, staff_name, staff_row, day_idx, constraints, history) ==
    LET current_value == d_f[<<staff_row, day_idx>>]
        day_num == DayNum(day_idx)
        day_of_week == weekdays[((day_num - 1) % 7) + 1]
        staff_history == DictGet(history, staff_name, <<>>)
    IN  IF current_value = 0 THEN FALSE
        ELSE IF ~ can_work_on_day(DictGet(constraints, staff_name, <<>>),
                                  day_num, day_of_week) THEN FALSE
        ELSE IF staff_history # <<>> /\ (day_idx - 1) \in SeqSet(staff_history)
            THEN FALSE
        ELSE TRUE

\* ---------------------------------------------------- count_staff_hours
RECURSIVE SumHours(_, _)
SumHours(entries, per_entry) ==
    IF entries = <<>> THEN 0 ELSE per_entry + SumHours(Tail(entries), per_entry)

count_staff_hours(history, staff_name, is_night_shift) ==
    IF staff_name \notin DOMAIN history THEN 0
    ELSE SumHours(history[staff_name],
                  IF is_night_shift THEN NIGHT_HOURS ELSE CARE_HOURS)

\* current_total_hours of the candidate loops.
current_total_hours(history, name) ==
    count_staff_hours(history, name, TRUE) + count_staff_hours(history, name, FALSE)

\* --------------------------------------------- candidate list of a slot
\* Mutant: the cap comparison of the candidate loop left out.
IsCandidate_NoCapCheck(d_f, history, g, day_idx, name, row) ==
    /\ can_assign_shift(d_f, name, row, day_idx, ConstraintsOf(g), history)
    /\ name \in DOMAIN limits
    /\ d_f[<<row, day_idx>>] # 0
    /\ d_f[<<row, day_idx>>] # NAN

\* Mutant: a name without a limit entry gets the sort key's default cap.
IsCandidate_MissingCapDefault(d_f, history, g, day_idx, name, row) ==
    /\ can_assign_shift(d_f, name, row, day_idx, ConstraintsOf(g), history)
    /\ current_total_hours(history, name) + ShiftHours(g)
          <= DictGet(limits, name, SORT_DEFAULT_LIMIT)
    /\ d_f[<<row, day_idx>>] # 0
    /\ d_f[<<row, day_idx>>] # NAN

\* One pass of a candidate loop: the body for one (name, row).
IsCandidate(d_f, history, g, day_idx, name, row) ==
    /\ can_assign_shift(d_f, name, row, day_idx, ConstraintsOf(g), history)
    /\ name \in DOMAIN limits
    /\ current_total_hours(history, name) + ShiftHours(g) <= limits[name]
    /\ d_f[<<row, day_idx>>] # 0
    /\ d_f[<<row, day_idx>>] # NAN

RECURSIVE CollectAvailable(_, _, _, _, _)
CollectAvailable(staff, d_f, history, g, day_idx) ==
    IF staff = <<>> THEN <<>>
    ELSE LET name == Head(staff)[1]
             row == Head(staff)[2]
             rest == CollectAvailable(Tail(staff), d_f, history, g, day_idx)
         IN IF IsCandidate(d_f, history, g, day_idx, name, row)
            THEN <<<<name, row, current_total_hours(history, name)>>>> \o rest
            ELSE rest

Available(d_f, history, g, day_idx) ==
    CollectAvailable(StaffOf(g), d_f, history, g, day_idx)

\* ------------------------------------------------------------ the sort
\* Mutant: the key of assign_shifts_for_group (hours first), cap second.
SortKey_HoursFirst(x) == <<x[3], DictGet(limits, x[1], SORT_DEFAULT_LIMIT)>>

\* key=lambda x: (limits.get(x[0], 1000), x[2]), compared as tuples.
SortKey(x) == <<DictGet(limits, x[1], SORT_DEFAULT_LIMIT), x[3]>>
KeyLess(a, b) == a[1] < b[1] \/ (a[1] = b[1] /\ a[2] < b[2])

SortPermutations(n) ==
    {p \in [1 .. n -> 1 .. n] : \A i, j \in 1 .. n : i # j => p[i] # p[j]}

\* Mutant: ties broken by random.random(), as in assign_shifts_for_group:
\* any list that is ascending by (cap, hours).
SortOutcomes_RandomTie(avail) ==
    {[i \in 1 .. Len(avail) |-> avail[p[i]]] : p \in
        {p \in SortPermutations(Len(avail)) :
            \A i, j \in 1 .. Len(avail) :
                i < j => ~ KeyLess(SortKey(avail[p[j]]), SortKey(avail[p[i]]))}}

\* The lists list.sort(key=...) may leave: ascending by key, and stable
\* (entries of equal key keep their order), hence exactly one list.
SortOutcomes(avail) ==
    {[i \in 1 .. Len(avail) |-> avail[p[i]]] : p \in
        {p \in SortPermutations(Len(avail)) :
            \A i, j \in 1 .. Len(avail) :
                i < j => \/ KeyLess(SortKey(avail[p[i]]), SortKey(avail[p[j]]))
                         \/ /\ SortKey(avail[p[i]]) = SortKey(avail[p[j]])
                            /\ p[i] < p[j]}}

\* ------------------------------------------------------------ rosters
\* Name lists of a group: names are unique within a group.
NameSeqs ==
    UNION {{q \in [1 .. n -> Names] : \A i, j \in 1 .. n : i # j => q[i] # q[j]} :
           n \in 0 .. Cardinality(Names)}

\* The four groups' name lists, in block order (night 1, care 1, night 2, care 2).
Rosters ==
    {r \in NameSeqs \X NameSeqs \X NameSeqs \X NameSeqs :
        Len(r[1]) + Len(r[2]) + Len(r[3]) + Len(r[4]) <= MaxRows}

GroupRows(g) ==
    CASE g = 1 -> NIGHT_ROWS_GH1
      [] g = 2 -> CARE_ROWS_GH1
      [] g = 3 -> NIGHT_ROWS_GH2
      [] g = 4 -> CARE_ROWS_GH2

\* get_staff_info: the (name, row) pairs of a group, in row order.
WithRows(names, g) == [i \in 1 .. Len(names) |-> <<names[i], GroupRows(g)[i]>>]

\* get_staff_limits: a table for some of the names.
LimitTables == UNION {[S -> LimitValues] : S \in SUBSET Names}

\* The special entries a roster may carry.
ZeroMarks(r) ==
    {<<"zero", GroupRows(g)[i], d>> : <<g, i, d>> \in
        {<<g, i, d>> \in (1 .. 4) \X (1 .. Cardinality(Names)) \X Days : i <= Len(r[g])}}
ConstraintMarks(r) ==
    {<<"constraint", g, r[g][i], c>> : <<g, i, c>> \in
        {<<g, i, c>> \in (1 .. 4) \X (1 .. Cardinality(Names)) \X ConstraintPool :
            i <= Len(r[g])}}
\* A roster carries no special entry or exactly one: a cell holding 0, or a
\* staff row with a non-empty constraint string.
MarkSets(r) == {{}} \cup {{x} : x \in ZeroMarks(r) \cup ConstraintMarks(r)}

\* parse_constraints of group g under the marks m.
ParsedConstraints(r, g, m) ==
    [name \in SeqSet(r[g]) |->
        IF \E c \in ConstraintPool : <<"constraint", g, name, c>> \in m
        THEN CHOOSE c \in ConstraintPool : <<"constraint", g, name, c>> \in m
        ELSE <<>>]

DATE_HEADER_ROW == 3

\* The cells of the detected staff rows under the detected date columns.
StaffCells(r) ==
    UNION {{GroupRows(g)[i] : i \in 1 .. Len(r[g])} \X Days : g \in 1 .. 4}

\* Rows the run only reads or never touches: the date header row and, in
\* each site, the last row of a row range (a row whose role text or name
\* does not match, so it is in no staff list).
OtherRows ==
    {DATE_HEADER_ROW, CARE_ROWS_GH1[Len(CARE_ROWS_GH1)], NIGHT_ROWS_GH2[Len(NIGHT_ROWS_GH2)]}
OtherCells == OtherRows \X Days

TemplateHours(row) ==
    IF \E i \in 1 .. Len(NIGHT_ROWS_GH1) : NIGHT_ROWS_GH1[i] = row
        THEN NIGHT_HOURS
    ELSE IF \E i \in 1 .. Len(NIGHT_ROWS_GH2) : NIGHT_ROWS_GH2[i] = row
        THEN NIGHT_HOURS
    ELSE CARE_HOURS

\* The uploaded grid: the date header holds the day numbers; every other
\* cell holds the hours of its row range, except the staff cells marked 0.
InputGrid(r, m) ==
    [cell \in StaffCells(r) \cup OtherCells |->
        IF cell[1] = DATE_HEADER_ROW THEN DayNum(cell[2])
        ELSE IF <<"zero", cell[1], cell[2]>> \in m THEN 0
        ELSE TemplateHours(cell[1])]

NoName == ""
NoRow == -1
EmptySeries == [name \in {} |-> 0]

\* The state at the entry of optimize_shifts for the roster (r, lim, m).
RosterInit(r, lim, m) ==
        /\ night_staff_gh1 = WithRows(r[1], 1)
        /\ care_staff_gh1 = WithRows(r[2], 2)
        /\ night_staff_gh2 = WithRows(r[3], 3)
        /\ care_staff_gh2 = WithRows(r[4], 4)
        /\ limits = lim
        /\ night_constraints_gh1 = ParsedConstraints(r, 1, m)
        /\ care_constraints_gh1 = ParsedConstraints(r, 2, m)
        /\ night_constraints_gh2 = ParsedConstraints(r, 3, m)
        /\ care_constraints_gh2 = ParsedConstraints(r, 4, m)
        /\ df_input = InputGrid(r, m)
        /\ df = InputGrid(r, m)
        /\ df_rerun = InputGrid(r, m)
        /\ assignment_history =
              [name \in SeqSet(r[1] \o r[2] \o r[3] \o r[4]) |-> <<>>]
        /\ assignment_history_rerun =
              [name \in SeqSet(r[1] \o r[2] \o r[3] \o r[4]) |-> <<>>]
        /\ available_staff = <<>>
        /\ selected_name = NoName
        /\ selected_row = NoRow
        /\ current_day_idx = 0
        /\ slot = 1
        /\ pc = "clear"
        /\ totals = EmptySeries
        /\ limits_series = EmptySeries

\* No call of can_work_on_day is followed on its own.
AvailIdle ==
    /\ avail_constraint = <<>>
    /\ avail_day = 1
    /\ avail_checked = FALSE
    /\ avail_result = FALSE

Init ==
    /\ \E r \in Rosters : \E lim \in LimitTables : \E m \in MarkSets(r) :
          RosterInit(r, lim, m)
    /\ AvailIdle

\* ------------------------------------------------------ optimize_shifts
\* Mutants of the clearing test: 0 cleared too; nothing cleared.
ClearedCell_ClearsZero(value) == BLANK
ClearedCell_KeepsValue(value) == value

\* The clearing loops: every staff cell that is not 0 becomes "".
ClearedCell(value) == IF value # 0 THEN BLANK ELSE value
ClearedGrid_WholeRanges(d_f) == [cell \in DOMAIN d_f |-> IF cell[1] # DATE_HEADER_ROW THEN ClearedCell(d_f[cell]) ELSE d_f[cell]]

ClearedGrid(d_f) == [cell \in DOMAIN d_f |-> IF cell[1] \in RowsIn(all_staff) THEN ClearedCell(d_f[cell]) ELSE d_f[cell]]

ClearShifts ==
    /\ pc = "clear"
    /\ df' = ClearedGrid(df)
    /\ df_rerun' = ClearedGrid(df_rerun)
    /\ pc' = "assign"
    /\ UNCHANGED <<roster_vars, assignment_history, assignment_history_rerun,
                   available_staff, selected_name, selected_row,
                   current_day_idx, slot, totals, limits_series, avail_vars>>

\* df.iloc[selected_row, day_col_idx] = 12.5 or 6, when a candidate exists.
\* Mutant: the write blanks the shifts other rows hold on the same day.
WriteSelected_OnePerDay(d_f, sorted, g, day_idx) ==
    IF sorted = <<>> THEN d_f
    ELSE [cell \in DOMAIN d_f |->
            IF cell = <<sorted[1][2], day_idx>> THEN ShiftHours(g)
            ELSE IF cell[2] = day_idx /\ cell[1] \in RowsIn(all_staff)
                    /\ d_f[cell] \in {NIGHT_HOURS, CARE_HOURS} THEN BLANK
            ELSE d_f[cell]]

WriteSelected(d_f, sorted, g, day_idx) ==
    IF sorted = <<>> THEN d_f
    ELSE [d_f EXCEPT ![<<sorted[1][2], day_idx>>] = ShiftHours(g)]

\* Mutant: the day-number appended instead of the day index.
RecordSelected_DayNumber(history, sorted, day_idx) ==
    IF sorted = <<>> THEN history
    ELSE [history EXCEPT ![sorted[1][1]] = Append(@, DayNum(day_idx))]

\* Mutant: a day already in the name's history is not appended again.
RecordSelected_OncePerDay(history, sorted, day_idx) ==
    IF sorted = <<>> \/ \E i \in 1 .. Len(history[sorted[1][1]]) : history[sorted[1][1]][i] = day_idx
        THEN history
    ELSE [history EXCEPT ![sorted[1][1]] = Append(@, day_idx)]

\* assignment_history[selected_name].append(current_day_idx)
RecordSelected(history, sorted, day_idx) ==
    IF sorted = <<>> THEN history
    ELSE [history EXCEPT ![sorted[1][1]] = Append(@, day_idx)]

\* One block of the day loop: candidates, sort, write, record.
AssignSlot(g) ==
    /\ pc = "assign"
    /\ slot = g
    /\ \E sorted \in SortOutcomes(Available(df, assignment_history, g, current_day_idx)) :
          /\ available_staff' = sorted
          /\ selected_name' = IF sorted = <<>> THEN selected_name ELSE sorted[1][1]
          /\ selected_row' = IF sorted = <<>> THEN selected_row ELSE sorted[1][2]
          /\ df' = WriteSelected(df, sorted, g, current_day_idx)
          /\ assignment_history' = RecordSelected(assignment_history, sorted, current_day_idx)
    /\ \E sorted \in SortOutcomes(Available(df_rerun, assignment_history_rerun, g,
                                            current_day_idx)) :
          /\ df_rerun' = WriteSelected(df_rerun, sorted, g, current_day_idx)
          /\ assignment_history_rerun' =
                RecordSelected(assignment_history_rerun, sorted, current_day_idx)
    /\ slot' = IF g = 4 THEN 1 ELSE g + 1
    /\ current_day_idx' = IF g = 4 THEN current_day_idx + 1 ELSE current_day_idx
    /\ pc' = IF g = 4 /\ current_day_idx = NumDays - 1 THEN "totals" ELSE "assign"
    /\ UNCHANGED <<roster_vars, totals, limits_series, avail_vars>>

AssignNightGH1 == AssignSlot(1)
AssignCareGH1 == AssignSlot(2)
AssignNightGH2 == AssignSlot(3)
AssignCareGH2 == AssignSlot(4)

\* The result summary: staff_totals and staff_limits.
Summarize ==
    /\ pc = "totals"
    /\ totals' = [name \in all_staff_names |->
                    count_staff_hours(assignment_history, name, TRUE)
                    + count_staff_hours(assignment_history, name, FALSE)]
    /\ limits_series' = [name \in all_staff_names |-> DictGet(limits, name, 0)]
    /\ pc' = "done"
    /\ UNCHANGED <<roster_vars, df, df_rerun, assignment_history,
                   assignment_history_rerun, available_staff, selected_name,
                   selected_row, current_day_idx, slot, avail_vars>>

Next ==
    \/ ClearShifts
    \/ AssignNightGH1
    \/ AssignCareGH1
    \/ AssignNightGH2
    \/ AssignCareGH2
    \/ Summarize

Spec == Init /\ [][Next]_vars

\* The run is one sequential call: a step that can be taken is taken.
SpecLive == Spec /\ WF_vars(Next)

\* ------------------------------------- can_work_on_day, called on its own
\* Constraint strings: "月1回", "月2回", "2日", "5日,20日", "月水のみ".
MonthlyOnce == <<getsu, "1", kai>>
MonthlyTwice == <<getsu, "2", kai>>
SecondOfMonth == <<"2", nichi>>
FifthAndTwentieth == <<"5", nichi, ",", "2", "0", nichi>>
AvailConstraints ==
    {MonthlyOnce, MonthlyTwice, SecondOfMonth, FifthAndTwentieth,
     <<getsu, sui, no, mi>>}
\* The day-numbers a date header may hold (detect_date_columns).
MonthDays == 1 .. 31

InitAvail ==
    /\ RosterInit(<<<<>>, <<>>, <<>>, <<>>>>, EmptySeries, {})
    /\ avail_constraint \in AvailConstraints
    /\ avail_day \in MonthDays
    /\ avail_checked = FALSE
    /\ avail_result = FALSE

\* The call of can_assign_shift, lines 661-664: the weekday is derived from
\* the day-number, then can_work_on_day decides.
CheckAvailability ==
    /\ ~ avail_checked
    /\ avail_result' = can_work_on_day(avail_constraint, avail_day,
                                       weekdays[((avail_day - 1) % 7) + 1])
    /\ avail_checked' = TRUE
    /\ UNCHANGED <<roster_vars, df, df_rerun, assignment_history,
                   assignment_history_rerun, available_staff, selected_name,
                   selected_row, current_day_idx, slot, pc, totals,
                   limits_series, avail_constraint, avail_day>>

NextAvail == CheckAvailability

SpecAvail == InitAvail /\ [][NextAvail]_vars

\* =================================================================== claims
\* Vocabulary of the claims, read off the grid.
IsShift(value) == value \in {NIGHT_HOURS, CARE_HOURS}
Groups == 1 .. 4
NightGroups == {g \in Groups : IsNightGroup(g)}
CareGroups == Groups \ NightGroups

\* Rows of group g, resp. of any group in gs, that carry the name.
RowsOfNameIn(name, gs) ==
    {StaffOf(g)[i][2] : <<g, i>> \in
        {<<g, i>> \in gs \X (1 .. Cardinality(Names)) :
            i <= Len(StaffOf(g)) /\ StaffOf(g)[i][1] = name}}
RowsOfName(name) == RowsOfNameIn(name, Groups)

RECURSIVE SumShiftCells(_, _)
SumShiftCells(d_f, cells) ==
    IF cells = {} THEN 0
    ELSE LET cell == CHOOSE c \in cells : TRUE
         IN (IF IsShift(d_f[cell]) THEN d_f[cell] ELSE 0)
            + SumShiftCells(d_f, cells \ {cell})

\* Hours of the shifts written into the name's cells.
AssignedHours(name) == SumShiftCells(df, RowsOfName(name) \X Days)

\* The name holds a shift on day d in one of the groups gs.
WorksIn(name, d, gs) == \E row \in RowsOfNameIn(name, gs) : IsShift(df[<<row, d>>])
Works(name, d) == WorksIn(name, d, Groups)

Cleared == pc # "clear"
\* At least one block of the day loop has run; LastSlot/LastDayIdx name it.
HasStepped == Cleared /\ ~ (current_day_idx = 0 /\ slot = 1)
LastSlot == IF slot = 1 THEN 4 ELSE slot - 1
LastDayIdx == IF slot = 1 THEN current_day_idx - 1 ELSE current_day_idx
\* The last block found a candidate and assigned it.
JustAssigned == HasStepped /\ available_staff # <<>>

\* C1 (cap invariant): once the grid is cleared, after every assignment step
\* and at the end of the run, the hours of the shifts written into a name's
\* cells (12.5 per night cell, 6 per care cell, over all its rows) are at
\* most the name's hour limit (0 for a name without a limit entry).
C1_CapInvariant ==
    Cleared => \A name \in all_staff_names :
                  AssignedHours(name) <= DictGet(limits, name, 0)

\* A name holding two shifts whose ledger total leaves no room for a third.
C1_Witness ==
    /\ pc = "done"
    /\ \E name \in all_staff_names :
          /\ name \in DOMAIN limits
          /\ AssignedHours(name) >= NIGHT_HOURS + CARE_HOURS
          /\ current_total_hours(assignment_history, name) + CARE_HOURS > limits[name]

\* C2 (no double-booking): for every name and day at most one of the name's
\* cells, over all four groups, holds a shift.
C2_NoDoubleBooking ==
    Cleared => \A name \in all_staff_names : \A d \in Days :
                  Cardinality({row \in RowsOfName(name) : IsShift(df[<<row, d>>])}) <= 1

\* C3 (fixed-block invariant): a cell that is 0 in the input stays 0, never
\* holds a shift, and is never the cell selected by an assignment step.
C3_FixedBlock ==
    /\ \A cell \in DOMAIN df : df_input[cell] = 0 => df[cell] = 0
    /\ JustAssigned => df_input[<<selected_row, LastDayIdx>>] # 0

\* The last block ran for a group whose only staff is blocked on that day
\* although under cap, and assigned nobody.
C3_Witness ==
    /\ HasStepped
    /\ Len(StaffOf(LastSlot)) = 1
    /\ df_input[<<StaffOf(LastSlot)[1][2], LastDayIdx>>] = 0
    /\ StaffOf(LastSlot)[1][1] \in DOMAIN limits
    /\ current_total_hours(assignment_history, StaffOf(LastSlot)[1][1])
          + ShiftHours(LastSlot) <= limits[StaffOf(LastSlot)[1][1]]
    /\ available_staff = <<>>
    /\ df[<<StaffOf(LastSlot)[1][2], LastDayIdx>>] = 0

\* C4 (at most one staff per slot): once the grid is cleared, and so after
\* the run, every group has on every day at most one row holding a shift,
\* that shift is the role's value, and every other cell is blank or 0.
C4_OnePerSlot ==
    Cleared => \A g \in Groups : \A d \in Days :
        /\ Cardinality({row \in RowsIn(StaffOf(g)) : IsShift(df[<<row, d>>])}) <= 1
        /\ \A row \in RowsIn(StaffOf(g)) : df[<<row, d>>] \in {ShiftHours(g), BLANK, 0}

\* A group of two staff, both candidates of the last block: one holds the
\* shift, the other is blank.
C4_Witness ==
    /\ HasStepped
    /\ Len(available_staff) = 2
    /\ df[<<available_staff[1][2], LastDayIdx>>] = ShiftHours(LastSlot)
    /\ df[<<available_staff[2][2], LastDayIdx>>] = BLANK

C6_NoConsecutiveDays ==
    Cleared => \A name \in all_staff_names : \A d \in Days :
        (d + 1 \in Days /\ Works(name, d)) => ~ Works(name, d + 1)

\* A name that is the only staff of a group, unconstrained, not blocked on
\* day d+1 and with cap to spare, works on d and d+2 and not on d+1.
C6_Witness ==
    /\ pc = "done"
    /\ \E name \in all_staff_names : \E d \in Days : \E g \in Groups :
          /\ d + 2 \in Days
          /\ Len(StaffOf(g)) = 1
          /\ StaffOf(g)[1][1] = name
          /\ ConstraintsOf(g)[name] = <<>>
          /\ df_input[<<StaffOf(g)[1][2], d + 1>>] # 0
          /\ name \in DOMAIN limits
          /\ current_total_hours(assignment_history, name) + ShiftHours(g)
                <= limits[name]
          /\ WorksIn(name, d, {g})
          /\ ~ Works(name, d + 1)
          /\ WorksIn(name, d + 2, {g})

NameRank(name) == IF name = "A" THEN 1 ELSE 2
\* Of a candidate entry (name, row, hours): cap, and cap minus hours.
CapOf(x) == limits[x[1]]
RemainingCapacity(x) == limits[x[1]] - x[3]
Candidates == {available_staff[i] : i \in 1 .. Len(available_staff)}
SelectedEntry == CHOOSE x \in Candidates : x[2] = selected_row

HoursBeforeLastSlot(name) ==
    AssignedHours(name) - (IF name = selected_name THEN ShiftHours(LastSlot) ELSE 0)

\* C9 (least-hours priority): the selected candidate has the fewest
\* accumulated working hours among the candidates of its slot.
C9_LeastHoursFirst ==
    JustAssigned => \A x \in Candidates :
        HoursBeforeLastSlot(selected_name) <= HoursBeforeLastSlot(x[1])

\* C10 (coverage): at the end of the run every slot with a staff of its
\* group that is not blocked on the day and has cap left for the slot's
\* hours holds exactly one assignment.
C10_Coverage ==
    pc = "done" => \A g \in Groups : \A d \in Days :
        (\E i \in 1 .. Len(StaffOf(g)) :
            /\ df_input[<<StaffOf(g)[i][2], d>>] # 0
            /\ StaffOf(g)[i][1] \in DOMAIN limits
            /\ AssignedHours(StaffOf(g)[i][1]) + ShiftHours(g)
                  <= limits[StaffOf(g)[i][1]])
        => Cardinality({row \in RowsIn(StaffOf(g)) : IsShift(df[<<row, d>>])}) = 1

\* No row of group g holds a shift on day d.
EmptySlot(g, d) == \A row \in RowsIn(StaffOf(g)) : ~ IsShift(df[<<row, d>>])

\* The Unfillable records among what optimize_shifts returns: it returns the
\* grid, the totals and the limits, and nothing per slot.
UnfillableRecords == {}
ReasonClasses == {"NoEligibleCandidate", "CapExceededForAll", "RestIntervalViolatedForAll"}

\* C11 (unfillable slots are reported): every slot that ends the run with no
\* assignment has an Unfillable record, with a reason class, in the output;
\* stated for the slots of the groups that have staff.
C11_UnfillableReported ==
    pc = "done" => \A g \in Groups : \A d \in Days :
        (StaffOf(g) # <<>> /\ EmptySlot(g, d)) => \E reason \in ReasonClasses :
                              <<g, d, reason>> \in UnfillableRecords

\* A required group has no staff, or a listed cap is not positive.
MalformedRoster ==
    \/ \E g \in Groups : StaffOf(g) = <<>>
    \/ \E name \in DOMAIN limits : limits[name] <= 0

\* C12 (malformed roster is fatal): with a group without staff or a
\* non-positive cap the run makes no assignment and does not complete.
C12_MalformedIsFatal ==
    MalformedRoster =>
        /\ pc # "done"
        /\ Cleared => \A cell \in RowsIn(all_staff) \X Days : ~ IsShift(df[cell])
        /\ \A name \in DOMAIN assignment_history : assignment_history[name] = <<>>

\* C13 (ledger hours are the assigned hours): at every step the hours total
\* the cap check uses for a name equals the hours of the shifts written for
\* that name (12.5 per night duty, 6 per day-care duty).
C13_LedgerHoursAreAssignedHours ==
    Cleared => \A name \in all_staff_names :
        current_total_hours(assignment_history, name) = AssignedHours(name)

\* C14 as claimed (MonthlyFrequency): "月n回" passes the availability check
\* iff the day-number lies in the first n 7-day windows (1..7, 1..14).
C14_FirstNWindows ==
    avail_checked =>
        /\ avail_constraint = MonthlyOnce => (avail_result <=> avail_day <= 7)
        /\ avail_constraint = MonthlyTwice => (avail_result <=> avail_day <= 14)

\* C14 as amended: "月1回" passes iff the day-number is in 1..7, and "月2回"
\* passes iff it is in 1..7 or in 15..21 (first and third week).
C14_FirstAndThirdWeek ==
    avail_checked =>
        /\ avail_constraint = MonthlyOnce => (avail_result <=> avail_day <= 7)
        /\ avail_constraint = MonthlyTwice =>
              (avail_result <=> (avail_day <= 7 \/ (15 <= avail_day /\ avail_day <= 21)))

\* "月2回" on day 15: the check has run and passed.
C14_Witness ==
    /\ avail_checked
    /\ avail_constraint = MonthlyTwice
    /\ avail_day = 15
    /\ avail_result

\* The day-numbers a specific-days constraint names.
SpecificDaySet(constraint) ==
    IF constraint = SecondOfMonth THEN {2} ELSE {5, 20}

\* C15 (SpecificDaysOfMonth): a constraint that lists day-numbers passes the
\* availability check iff the day-number is one of those listed.
C15_SpecificDays ==
    (avail_checked /\ avail_constraint \in {SecondOfMonth, FifthAndTwentieth})
        => (avail_result <=> avail_day \in SpecificDaySet(avail_constraint))

\* The group whose row range holds the row.
GroupOfRow(row) == CHOOSE g \in Groups : row \in SeqSet(GroupRows(g))

\* C16 (frame of the run): at every step the grid has the cells of the
\* input; every cell that is not at (row of a detected staff member, detected
\* date column) equals its input value, and every staff cell that held 0 in
\* the input holds 0; no step changes such a cell.
C16_Frame ==
    /\ [](/\ DOMAIN df = DOMAIN df_input
          /\ \A cell \in DOMAIN df :
                /\ cell[1] \notin RowsIn(all_staff) => df[cell] = df_input[cell]
                /\ df_input[cell] = 0 => df[cell] = 0)
    /\ [][\A cell \in DOMAIN df :
             (cell[1] \notin RowsIn(all_staff) \/ df[cell] = 0) => df'[cell] = df[cell]]_vars

\* The run is over; on one day a staff cell was blanked and another was
\* assigned a shift while the undetected rows and the date header kept their
\* input values, and a cell held 0 in the input.
C16_Witness ==
    /\ pc = "done"
    /\ \E i, j \in 1 .. Len(all_staff) : \E d \in Days :
          /\ df[<<all_staff[i][2], d>>] = BLANK
          /\ df_input[<<all_staff[i][2], d>>] # BLANK
          /\ all_staff[j][1] = selected_name
          /\ df[<<all_staff[j][2], d>>] = ShiftHours(GroupOfRow(all_staff[j][2]))
          /\ \A row \in OtherRows \ {DATE_HEADER_ROW} : df[<<row, d>>] = TemplateHours(row)
          /\ df[<<DATE_HEADER_ROW, d>>] = DayNum(d)
    /\ \E cell \in DOMAIN df : df_input[cell] = 0

\* The slot (g, d) has had its turn: its day is over, or its day is the
\* current one and its block lies before the current block (night duty of
\* site 1, day care of site 1, night duty of site 2, day care of site 2).
Decided(g, d) ==
    /\ Cleared
    /\ \/ d < current_day_idx
       \/ d = current_day_idx /\ g < slot

\* C17 (processing order): a staff cell holds a shift, and a ledger holds a
\* day, only for a slot that has had its turn in the order day by day and,
\* within a day, night 1, care 1, night 2, care 2; the block that has just
\* assigned wrote the cell of its own slot and its day is the last entry of
\* the selected name's ledger before the next block starts; a block changes
\* cells of its own slot only and is followed by the next block of the day
\* or, after the last block, by the first block of the next day.
C17_ProcessingOrder ==
    /\ [](/\ Cleared => \A i \in 1 .. Len(all_staff) : \A d \in Days :
                IsShift(df[<<all_staff[i][2], d>>])
                    => Decided(GroupOfRow(all_staff[i][2]), d)
          /\ \A name \in DOMAIN assignment_history :
                \A i \in 1 .. Len(assignment_history[name]) :
                    /\ HasStepped
                    /\ assignment_history[name][i] <= LastDayIdx
                    /\ i > 1 => assignment_history[name][i - 1]
                                   <= assignment_history[name][i]
          /\ JustAssigned =>
                /\ selected_row \in SeqSet(GroupRows(LastSlot))
                /\ df[<<selected_row, LastDayIdx>>] = ShiftHours(LastSlot)
                /\ assignment_history[selected_name]
                      [Len(assignment_history[selected_name])] = LastDayIdx)
    /\ [][pc = "assign" =>
             /\ slot < Cardinality(Groups)
                   => slot' = slot + 1 /\ current_day_idx' = current_day_idx
             /\ slot = Cardinality(Groups)
                   => slot' = 1 /\ current_day_idx' = current_day_idx + 1
             /\ \A cell \in DOMAIN df : df'[cell] # df[cell] =>
                   /\ cell[1] \in SeqSet(GroupRows(slot))
                   /\ cell[2] = current_day_idx]_vars

\* On the second day site 1's night slot is filled and site 2's blocks have
\* not run yet: site 2 has night staff and none of its cells of the day
\* holds a shift, while the first day holds one.
C17_Witness ==
    /\ pc = "assign"
    /\ current_day_idx = 1
    /\ slot = 3
    /\ \E row \in RowsIn(night_staff_gh1) : IsShift(df[<<row, 1>>])
    /\ night_staff_gh2 # <<>>
    /\ \A row \in RowsIn(night_staff_gh2 \o care_staff_gh2) : ~ IsShift(df[<<row, 1>>])
    /\ \E row \in RowsIn(night_staff_gh2) : IsShift(df[<<row, 0>>])

\* The staff cells of slot (g, d).
SlotCells(g, d) == (RowsIn(all_staff) \cap SeqSet(GroupRows(g))) \X {d}

\* Number of slots that have had their turn.
DecidedCount == Cardinality({gd \in Groups \X Days : Decided(gd[1], gd[2])})

\* A step of the run: the slots already decided stay decided and their
\* cells keep their values, no ledger entry is removed or altered, and an
\* assignment block decides exactly one more slot.
C18_Step ==
    /\ \A g \in Groups : \A d \in Days : Decided(g, d) =>
          /\ Decided(g, d)'
          /\ \A cell \in SlotCells(g, d) : df'[cell] = df[cell]
    /\ \A name \in DOMAIN assignment_history :
          /\ Len(assignment_history'[name]) >= Len(assignment_history[name])
          /\ SubSeq(assignment_history'[name], 1, Len(assignment_history[name]))
                = assignment_history[name]
    /\ pc = "assign" =>
          /\ DecidedCount' = DecidedCount + 1
          /\ \E g \in Groups : \E d \in Days :
                /\ g = slot /\ d = current_day_idx
                /\ ~ Decided(g, d)
                /\ Decided(g, d)'

\* C18 (slot state machine): once the grid is cleared a slot that has not
\* had its turn holds no shift; every assignment step decides exactly one
\* more slot, leaving it assigned (one shift cell) or unfilled, and no later
\* step changes a decided slot's cells or the ledger entries made; the run
\* ends, and at its end every slot of the horizon is decided.
C18_SlotStateMachine ==
    /\ [](Cleared => \A g \in Groups : \A d \in Days :
             ~ Decided(g, d) => \A cell \in SlotCells(g, d) : df[cell] \in {BLANK, 0})
    /\ [](\A g \in Groups : \A d \in Days : Decided(g, d) =>
             Cardinality({cell \in SlotCells(g, d) : IsShift(df[cell])}) <= 1)
    /\ [][C18_Step]_vars
    /\ [](pc = "done" => \A g \in Groups : \A d \in Days : Decided(g, d))
    /\ <>(pc = "done")

\* The run has ended with every slot decided: one slot of a staffed group
\* is assigned and another slot of a staffed group is left unfilled.
C18_Witness ==
    /\ pc = "done"
    /\ DecidedCount = Cardinality(Groups \X Days)
    /\ \E g \in Groups : \E d \in Days : \E cell \in SlotCells(g, d) : IsShift(df[cell])
    /\ \E g \in Groups : \E d \in Days : StaffOf(g) # <<>> /\ EmptySlot(g, d)

\* The cells of the name's rows that hold a shift value.
ShiftCellsOf(d_f, name) == {cell \in RowsOfName(name) \X Days : IsShift(d_f[cell])}

\* C19 as claimed (ledger and grid stay consistent): in every reachable
\* state the number of ledger entries of a name equals the number of cells
\* in that name's rows that hold a shift value.
C19_EveryReachableState ==
    \A name \in DOMAIN assignment_history :
        Len(assignment_history[name]) = Cardinality(ShiftCellsOf(df, name))

\* A step adds an entry to a name's ledger exactly when it writes a shift
\* value into one of the name's cells, and removes or alters no entry.
C19_Step ==
    Cleared => \A name \in DOMAIN assignment_history :
        /\ Len(assignment_history'[name]) > Len(assignment_history[name])
              <=> \E cell \in RowsOfName(name) \X Days :
                      ~ IsShift(df[cell]) /\ IsShift(df'[cell])
        /\ Len(assignment_history'[name]) <= Len(assignment_history[name]) + 1
        /\ SubSeq(assignment_history'[name], 1, Len(assignment_history[name]))
              = assignment_history[name]

\* C19 as amended: the ledger is empty until the grid is cleared; from the
\* start of assignment on, the number of ledger entries of a name, and for
\* each day the number of its entries for that day, equals the number of
\* cells in the name's rows that hold a shift value (on that day), and every
\* step adds an entry exactly when it writes a shift value into one of the
\* name's cells and never removes one.
C19_ConsistentOnceCleared ==
    /\ [](~ Cleared => \A name \in DOMAIN assignment_history :
                           assignment_history[name] = <<>>)
    /\ [](Cleared => \A name \in DOMAIN assignment_history :
             /\ Len(assignment_history[name]) = Cardinality(ShiftCellsOf(df, name))
             /\ \A d \in Days :
                   Cardinality({i \in 1 .. Len(assignment_history[name]) :
                                   assignment_history[name][i] = d})
                     = Cardinality({cell \in ShiftCellsOf(df, name) : cell[2] = d}))
    /\ [][C19_Step]_vars

\* The run is over and a name with rows in two groups holds two shifts on
\* one day: its ledger has that day twice.
C19_Witness ==
    /\ pc = "done"
    /\ \E name \in DOMAIN assignment_history : \E d \in Days :
          /\ Cardinality({cell \in ShiftCellsOf(df, name) : cell[2] = d}) = 2
          /\ Len(assignment_history[name]) >= 2

\* C20 (reported workload summary): at the end of the run the total
\* reported for a name equals the hours of the shifts written into the
\* name's cells (12.5 per night duty, 6 per day-care duty), and a name whose
\* written hours are within its limit is not reported above its limit.
C20_ReportedTotalsAreWrittenHours ==
    pc = "done" => \A name \in DOMAIN totals :
        /\ totals[name] = AssignedHours(name)
        /\ AssignedHours(name) <= limits_series[name]
              => totals[name] <= limits_series[name]

\* The staff names that have no entry in the hour-limit table.
NamesWithoutCap == all_staff_names \ DOMAIN limits

\* C21 (staff without a cap entry): a staff name without an entry in the
\* hour-limit table is in no candidate list, no step selects it or adds to
\* its ledger, none of its cells holds a shift once the grid is cleared, and
\* the summary reports it with limit 0 and total 0.
C21_NoCapNoAssignment ==
    /\ [](\A name \in NamesWithoutCap :
             /\ \A i \in 1 .. Len(available_staff) : available_staff[i][1] # name
             /\ selected_name # name
             /\ assignment_history[name] = <<>>
             /\ Cleared => \A cell \in RowsOfName(name) \X Days : ~ IsShift(df[cell])
             /\ pc = "done" => totals[name] = 0 /\ limits_series[name] = 0)
    /\ [][\A name \in NamesWithoutCap :
             /\ assignment_history'[name] = assignment_history[name]
             /\ Cleared => \A cell \in RowsOfName(name) \X Days : df'[cell] = df[cell]]_vars

\* The run is over: a name without a cap entry shares a group with a name
\* that was assigned; its own cells of that group are blank, not 0, and it
\* is reported with total 0 and limit 0.
C21_Witness ==
    /\ pc = "done"
    /\ \E g \in Groups : \E i, j \in 1 .. Len(StaffOf(g)) :
          /\ StaffOf(g)[i][1] \in NamesWithoutCap
          /\ \A d \in Days : df[<<StaffOf(g)[i][2], d>>] = BLANK
          /\ totals[StaffOf(g)[i][1]] = 0
          /\ limits_series[StaffOf(g)[i][1]] = 0
          /\ \E d \in Days : IsShift(df[<<StaffOf(g)[j][2], d>>])

====
